---------------------------- MODULE Spec2Model ----------------------------
(***************************************************************************)
(* camRAT.py: a Flask server that crops a region of interest (ROI) out of  *)
(* an on-screen window and serves it as an MJPEG stream, with snapshot,    *)
(* health and runtime-calibration (/set_roi) endpoints.                    *)
(*                                                                         *)
(* Four specifications share the variables below:                          *)
(*   SpecRoi    the ROI resolver as pure functions over drawn inputs       *)
(*   Spec       /set_roi handlers running concurrently on threads          *)
(*   SpecHttp   the endpoints that look the window up, /set_roi in turn    *)
(*   SpecStream the MJPEG generator loop of every connected client         *)
(*                                                                         *)
(* Numbers.  Pixels are integers.  A Python float is a fixed-point number  *)
(* counted in units of 1/Den: the fraction 0.748713 is 748713.  int()      *)
(* truncates toward zero.                                                  *)
(***************************************************************************)
EXTENDS Integers, Sequences, FiniteSets, TLC

VARIABLES
    ROI_RUNTIME_MODE,   \* camRAT.py:35   NoMode, "absolute" or "relative"
    ROI_RUNTIME_ABS,    \* camRAT.py:36   None or <<x, y, w, h>>
    ROI_RUNTIME_REL,    \* camRAT.py:37   None or <<l, t, r, b>>
    ROI_CLAMP,          \* camRAT.py:32   border clamp in pixels
    lock,               \* camRAT.py:39   the clients holding the lock; {} when free
    win,                \* the desktop: the target window as pygetwindow sees it
    call,               \* SpecRoi: the resolver call under test and its result
    srPc, srReq, srLoc, srResp,  \* one /set_roi handler per thread
    lastDone,           \* {[mode, roi]} of the /set_roi completed last, none started since
    resp,               \* the last response of a lookup endpoint
    cPc, cIter          \* one mjpeg_generator per stream client

vars == <<ROI_RUNTIME_MODE, ROI_RUNTIME_ABS, ROI_RUNTIME_REL, ROI_CLAMP, lock,
          win, call, srPc, srReq, srLoc, srResp, lastDone, resp, cPc, cIter>>

rtVars == <<ROI_RUNTIME_MODE, ROI_RUNTIME_ABS, ROI_RUNTIME_REL>>

---------------------------------------------------------------------------
(* Values *)

\* Python's None for a tuple-valued global; the empty tuple is falsy as well.
None == <<>>
\* Python's None for ROI_RUNTIME_MODE.
NoMode == "None"

\* One unit of the fixed-point floats: 1.0 is Den.
Den == 10^6

ROI_MODE == "relative"
ABS_ROI == <<1454, 540, 460, 377>>
REL_ROI == <<748713, 518234, 985582, 880038>>

Max(a, b) == IF a >= b THEN a ELSE b
Min(a, b) == IF a <= b THEN a ELSE b

\* int(): truncation toward zero of the fixed-point number n / Den.
int(n) == IF n >= 0 THEN n \div Den ELSE -((-n) \div Den)

\* str.lower() on the mode strings a request can carry.
Lower(s) ==
    CASE s = "ABSOLUTE" -> "absolute"
      [] s = "Relative" -> "relative"
      [] OTHER -> s

\* Python truthiness of a tuple-or-None global.
Truthy(t) == t # None

---------------------------------------------------------------------------
(* ROI resolver *)

\* _roi_from_absolute clamping the width against W instead of W - x.
RoiFromAbsoluteFullWidth(bbox, abs_roi) ==
    LET x == Max(0, abs_roi[1])
        y == Max(0, abs_roi[2])
        w == Max(1, Min(abs_roi[3], bbox.width))
        h == Max(1, Min(abs_roi[4], bbox.height - y))
    IN  [left |-> bbox.left + x, top |-> bbox.top + y, width |-> w, height |-> h]

\* camRAT.py:58-65.  abs_roi holds integers, on which int(v) is the identity.
_roi_from_absolute(bbox, abs_roi) ==
    LET L == bbox.left
        T == bbox.top
        W == bbox.width
        H == bbox.height
        x == Max(0, abs_roi[1])
        y == Max(0, abs_roi[2])
        w == Max(1, Min(abs_roi[3], W - x))
        h == Max(1, Min(abs_roi[4], H - y))
    IN  [left |-> L + x, top |-> T + y, width |-> w, height |-> h]

\* _roi_from_relative taking l for the left edge and r for the right one.
RoiFromRelativeNoSwap(bbox, rel_roi) ==
    LET l == Max(0, Min(Den, rel_roi[1]))
        t == Max(0, Min(Den, rel_roi[2]))
        r == Max(0, Min(Den, rel_roi[3]))
        b == Max(0, Min(Den, rel_roi[4]))
        x0 == int(bbox.left * Den + bbox.width * l)
        y0 == int(bbox.top * Den + bbox.height * Min(t, b))
        x1 == int(bbox.left * Den + bbox.width * r)
        y1 == int(bbox.top * Den + bbox.height * Max(t, b))
    IN  [left |-> x0, top |-> y0, width |-> Max(1, x1 - x0), height |-> Max(1, y1 - y0)]

\* camRAT.py:67-76.  rel_roi holds fixed-point floats.
_roi_from_relative(bbox, rel_roi) ==
    LET L == bbox.left
        T == bbox.top
        W == bbox.width
        H == bbox.height
        l == Max(0, Min(Den, rel_roi[1]))
        t == Max(0, Min(Den, rel_roi[2]))
        r == Max(0, Min(Den, rel_roi[3]))
        b == Max(0, Min(Den, rel_roi[4]))
        x0 == int(L * Den + W * Min(l, r))
        y0 == int(T * Den + H * Min(t, b))
        x1 == int(L * Den + W * Max(l, r))
        y1 == int(T * Den + H * Max(t, b))
        w == Max(1, x1 - x0)
        h == Max(1, y1 - y0)
    IN  [left |-> x0, top |-> y0, width |-> w, height |-> h]

\* camRAT.py:80-86: the mode and the ROI values a resolution uses.
RoiSelection(rtMode, rtAbs, rtRel) ==
    LET mode == Lower(IF rtMode # NoMode THEN rtMode ELSE ROI_MODE)
    IN  IF mode = "absolute"
        THEN [mode |-> "absolute", roi |-> IF Truthy(rtAbs) THEN rtAbs ELSE ABS_ROI]
        ELSE [mode |-> "relative", roi |-> IF Truthy(rtRel) THEN rtRel ELSE REL_ROI]

\* The border clamp of _apply_roi_to_bbox without the floor of 1.
BorderClampNoFloor(roi, clamp) ==
    IF clamp > 0
    THEN [left |-> roi.left + clamp, top |-> roi.top + clamp,
          width |-> roi.width - 2 * clamp, height |-> roi.height - 2 * clamp]
    ELSE roi

\* camRAT.py:88-93.
BorderClamp(roi, clamp) ==
    IF clamp > 0
    THEN [left |-> roi.left + clamp, top |-> roi.top + clamp,
          width |-> Max(1, roi.width - 2 * clamp),
          height |-> Max(1, roi.height - 2 * clamp)]
    ELSE roi

\* camRAT.py:78-93 as a function of the globals it reads.
ApplyRoi(bbox, rtMode, rtAbs, rtRel, clamp) ==
    LET sel == RoiSelection(rtMode, rtAbs, rtRel)
        roi == IF sel.mode = "absolute"
               THEN _roi_from_absolute(bbox, sel.roi)
               ELSE _roi_from_relative(bbox, sel.roi)
    IN  BorderClamp(roi, clamp)

\* camRAT.py:78-93 in the current state.
_apply_roi_to_bbox(bbox) ==
    ApplyRoi(bbox, ROI_RUNTIME_MODE, ROI_RUNTIME_ABS, ROI_RUNTIME_REL, ROI_CLAMP)

---------------------------------------------------------------------------
(* The desktop and the window lookup *)

WINDOW_TITLE == "DMV-Viewer"

\* Window bounding boxes the target application is seen at.
BoxA == [left |-> 100, top |-> 50, width |-> 800, height |-> 600]
BoxB == [left |-> -3, top |-> 0, width |-> 4, height |-> 2]

\* The windows whose title contains WINDOW_TITLE, in enumeration order.
Desktops ==
    { <<>>,
      << [title |-> "DMV-Viewer", isMinimized |-> FALSE, box |-> BoxA] >>,
      << [title |-> "DMV-Viewer", isMinimized |-> TRUE, box |-> BoxA] >>,
      << [title |-> "DMV-Viewer 2", isMinimized |-> FALSE, box |-> BoxB],
         [title |-> "DMV-Viewer", isMinimized |-> TRUE, box |-> BoxA] >> }

\* camRAT.py:47-56.  raised: the ValueError the lookup ends with.
find_window_bbox ==
    IF win = <<>>
    THEN [raised |-> TRUE, exc |-> "ValueError", error |-> "not found"]
    ELSE LET w == win[1]
         IN  IF w.isMinimized
             THEN [raised |-> TRUE, exc |-> "ValueError", error |-> "is minimized"]
             ELSE [raised |-> FALSE, exc |-> "none", error |-> "none",
                   bbox |-> [title |-> w.title, top |-> w.box.top, left |-> w.box.left,
                             width |-> w.box.width, height |-> w.box.height]]

\* camRAT.py:104-105: the 640x480 black frame with the exception text on it.
ErrorFrame(e) == [kind |-> "placeholder", text |-> e]

\* grab_frame without its try/except: the exception leaves the function.
GrabFrameUncaught(capOk) ==
    LET f == find_window_bbox
    IN  IF f.raised THEN [raised |-> TRUE, exc |-> f.exc, img |-> ErrorFrame(f.error), err |-> f.error]
        ELSE IF ~capOk
        THEN [raised |-> TRUE, exc |-> "ScreenShotError", img |-> ErrorFrame("grab failed"),
              err |-> "grab failed"]
        ELSE [raised |-> FALSE, exc |-> "none",
              img |-> [kind |-> "roi", rect |-> _apply_roi_to_bbox(f.bbox)], err |-> "none"]

\* camRAT.py:95-106.  capOk: whether sct.grab succeeds.  Never raises.
grab_frame(capOk) ==
    LET f == find_window_bbox
    IN  IF f.raised
        THEN [raised |-> FALSE, exc |-> "none", img |-> ErrorFrame(f.error), err |-> f.error]
        ELSE IF ~capOk
        THEN [raised |-> FALSE, exc |-> "none", img |-> ErrorFrame("grab failed"),
              err |-> "grab failed"]
        ELSE [raised |-> FALSE, exc |-> "none",
              img |-> [kind |-> "roi", rect |-> _apply_roi_to_bbox(f.bbox)], err |-> "none"]

\* camRAT.py:108-113.  No try/except: a failed lookup or capture raises.
grab_full_window(capOk) ==
    LET f == find_window_bbox
    IN  IF f.raised THEN [raised |-> TRUE, exc |-> f.exc, img |-> None]
        ELSE IF ~capOk THEN [raised |-> TRUE, exc |-> "ScreenShotError", img |-> None]
        ELSE [raised |-> FALSE, exc |-> "none",
              img |-> [kind |-> "full",
                       rect |-> [left |-> f.bbox.left, top |-> f.bbox.top,
                                 width |-> f.bbox.width, height |-> f.bbox.height]]]

\* camRAT.py:115-119.  encOk: whether cv2.imencode reports success.
encode_jpeg(img, encOk) ==
    IF encOk THEN [raised |-> FALSE, exc |-> "none", jpg |-> img]
    ELSE [raised |-> TRUE, exc |-> "RuntimeError", jpg |-> None]

\* Flask's answer to a view that raises: 500 Internal Server Error.
Unhandled(endpoint, exc) ==
    [endpoint |-> endpoint, status |-> 500, exc |-> exc, body |-> None, lookup |-> "none"]

Answer(endpoint, body, lookup) ==
    [endpoint |-> endpoint, status |-> 200, exc |-> "none", body |-> body, lookup |-> lookup]

\* "failed" when the window lookup of this request raised, else "ok".
Lookup == IF find_window_bbox.raised THEN "failed" ELSE "ok"

\* camRAT.py:172-183.
snapshot(capOk, encOk) ==
    LET g == grab_frame(capOk)
        e == encode_jpeg(g.img, encOk)
    IN  IF e.raised THEN [Unhandled("/snapshot.jpg", e.exc) EXCEPT !.lookup = Lookup]
        ELSE Answer("/snapshot.jpg", e.jpg, Lookup)

\* camRAT.py:186-194.
full_window_jpg(capOk, encOk) ==
    LET g == grab_full_window(capOk)
    IN  IF g.raised THEN [Unhandled("/full_window.jpg", g.exc) EXCEPT !.lookup = Lookup]
        ELSE LET e == encode_jpeg(g.img, encOk)
             IN  IF e.raised
                 THEN [Unhandled("/full_window.jpg", e.exc) EXCEPT !.lookup = Lookup]
                 ELSE Answer("/full_window.jpg", e.jpg, Lookup)

\* camRAT.py:197-234.  The grid is drawn on the full window, or on what grab_frame
\* returns when the full-window capture raised; the ROI outline is drawn when the
\* second lookup succeeds and skipped when it raises.
snapshot_grid(capOk, capOk2, encOk) ==
    LET g == grab_full_window(capOk)
        base == IF g.raised THEN grab_frame(capOk2).img ELSE g.img
        f == find_window_bbox
        outline == IF f.raised THEN None ELSE _apply_roi_to_bbox(f.bbox)
        e == encode_jpeg([base |-> base, outline |-> outline], encOk)
    IN  IF e.raised THEN [Unhandled("/snapshot_grid.jpg", e.exc) EXCEPT !.lookup = Lookup]
        ELSE Answer("/snapshot_grid.jpg", e.jpg, Lookup)

\* camRAT.py:432-447.  The globals are read at one instant.
health ==
    LET f == find_window_bbox
    IN  IF f.raised
        THEN Answer("/health", [ok |-> FALSE, error |-> f.error, window_title |-> WINDOW_TITLE],
                    "failed")
        ELSE Answer("/health",
                    [ok |-> TRUE,
                     window |-> f.bbox.title,
                     window_bbox |-> [left |-> f.bbox.left, top |-> f.bbox.top,
                                      width |-> f.bbox.width, height |-> f.bbox.height],
                     roi_bbox |-> _apply_roi_to_bbox(f.bbox),
                     mode |-> IF ROI_RUNTIME_MODE # NoMode THEN ROI_RUNTIME_MODE ELSE ROI_MODE,
                     runtime_abs |-> ROI_RUNTIME_ABS,
                     runtime_rel |-> ROI_RUNTIME_REL],
                    "ok")

---------------------------------------------------------------------------
(* /set_roi *)

\* Threads of the threaded server that run /set_roi handlers.
NumThreads == 2
Threads == 1..NumThreads

\* A query argument: absent, a number (fixed-point) or text float() rejects.
Num(n) == [k |-> "num", v |-> n]
Missing == [k |-> "missing", v |-> 0]
Bad == [k |-> "bad", v |-> 0]

\* The /set_roi requests the clients send.  mode "" stands for an absent mode
\* (request.args.get("mode") or "").
Requests ==
    { [mode |-> "absolute", args |-> <<Num(1500000), Num(0), Num(2900000), Num(2000000)>>],
      [mode |-> "ABSOLUTE", args |-> <<Missing, Missing, Missing, Missing>>],
      [mode |-> "relative", args |-> <<Num(500000), Num(500000), Num(1000000), Num(1000000)>>],
      [mode |-> "Relative", args |-> <<Num(1500000), Missing, Num(-250000), Missing>>],
      [mode |-> "absolute", args |-> <<Num(3000000), Bad, Num(1000000), Num(1000000)>>],
      [mode |-> "", args |-> <<Num(1000000), Num(1000000), Num(1000000), Num(1000000)>>],
      [mode |-> "abs", args |-> <<Missing, Missing, Missing, Missing>>] }

NoReq == [mode |-> "", args |-> <<Missing, Missing, Missing, Missing>>]

\* float(request.args.get(name, default)); default in whole units.
ArgFloat(a, default) == IF a.k = "missing" THEN default * Den ELSE a.v

\* float() raises ValueError on one of the four arguments.
ParseRaises(req) == \E i \in 1..4 : req.args[i].k = "bad"

\* camRAT.py:411-414: int(float(...)) of x, y, w, h with defaults 0, 0, 1, 1.
ParseAbs(req) ==
    << int(ArgFloat(req.args[1], 0)), int(ArgFloat(req.args[2], 0)),
       int(ArgFloat(req.args[3], 1)), int(ArgFloat(req.args[4], 1)) >>

\* camRAT.py:420-423: float(...) of l, t, r, b with defaults 0, 0, 1, 1.
ParseRel(req) ==
    << ArgFloat(req.args[1], 0), ArgFloat(req.args[2], 0),
       ArgFloat(req.args[3], 1), ArgFloat(req.args[4], 1) >>

\* camRAT.py:409.
ReqMode(req) == Lower(req.mode)

ValidMode(req) == ReqMode(req) \in {"absolute", "relative"}

SetRoiOk == [status |-> 200, ok |-> TRUE]
SetRoiBadMode == [status |-> 400, ok |-> FALSE]
SetRoiError == [status |-> 500, ok |-> FALSE]
NoResp == [status |-> 0, ok |-> FALSE]

\* The else branch of set_roi clearing the overrides before it answers 400.
SetRoiRejectClearing(t, req) ==
    /\ srPc' = [srPc EXCEPT ![t] = "done"]
    /\ srResp' = [srResp EXCEPT ![t] = SetRoiBadMode]
    /\ srLoc' = [srLoc EXCEPT ![t] = None]
    /\ ROI_RUNTIME_MODE' = NoMode
    /\ ROI_RUNTIME_ABS' = None
    /\ ROI_RUNTIME_REL' = None

\* camRAT.py:428-429: the else branch.
SetRoiReject(t, req) ==
    /\ srPc' = [srPc EXCEPT ![t] = "done"]
    /\ srResp' = [srResp EXCEPT ![t] = SetRoiBadMode]
    /\ srLoc' = [srLoc EXCEPT ![t] = None]
    /\ UNCHANGED rtVars

\* camRAT.py:407-414, 420-423, 428-429: a thread takes a request, reads the mode and
\* parses the arguments.  Nothing shared is written before every argument is parsed.
SetRoiBegin(t) ==
    /\ srPc[t] = "idle"
    /\ \E req \in Requests :
         /\ srReq' = [srReq EXCEPT ![t] = req]
         /\ IF ~ValidMode(req)
            THEN SetRoiReject(t, req)
            ELSE /\ UNCHANGED rtVars
                 /\ IF ParseRaises(req)
                    THEN /\ srPc' = [srPc EXCEPT ![t] = "done"]
                         /\ srResp' = [srResp EXCEPT ![t] = SetRoiError]
                         /\ srLoc' = [srLoc EXCEPT ![t] = None]
                    ELSE /\ srPc' = [srPc EXCEPT ![t] = "mode"]
                         /\ srResp' = [srResp EXCEPT ![t] = NoResp]
                         /\ srLoc' = [srLoc EXCEPT ![t] =
                                IF ReqMode(req) = "absolute" THEN ParseAbs(req)
                                ELSE ParseRel(req)]
    /\ lastDone' = {}
    /\ UNCHANGED <<ROI_CLAMP, lock, win, call, resp, cPc, cIter>>

\* camRAT.py:415, 424: ROI_RUNTIME_MODE = "absolute" | "relative".
SetRoiMode(t) ==
    /\ srPc[t] = "mode"
    /\ ROI_RUNTIME_MODE' = ReqMode(srReq[t])
    /\ srPc' = [srPc EXCEPT ![t] = "slot"]
    /\ UNCHANGED <<ROI_RUNTIME_ABS, ROI_RUNTIME_REL, ROI_CLAMP, lock, win, call,
                   srReq, srLoc, srResp, lastDone, resp, cPc, cIter>>

\* camRAT.py:416, 425: the slot of the request's mode takes the parsed values.
SetRoiSlot(t) ==
    /\ srPc[t] = "slot"
    /\ IF ReqMode(srReq[t]) = "absolute"
       THEN ROI_RUNTIME_ABS' = srLoc[t] /\ UNCHANGED ROI_RUNTIME_REL
       ELSE ROI_RUNTIME_REL' = srLoc[t] /\ UNCHANGED ROI_RUNTIME_ABS
    /\ srPc' = [srPc EXCEPT ![t] = "clear"]
    /\ UNCHANGED <<ROI_RUNTIME_MODE, ROI_CLAMP, lock, win, call,
                   srReq, srLoc, srResp, lastDone, resp, cPc, cIter>>

\* set_roi leaving the other slot as it is.
ClearOtherSkipped(t) ==
    UNCHANGED <<ROI_RUNTIME_ABS, ROI_RUNTIME_REL>>

\* camRAT.py:417, 426: the other slot is set to None.
ClearOther(t) ==
    IF ReqMode(srReq[t]) = "absolute"
    THEN ROI_RUNTIME_REL' = None /\ UNCHANGED ROI_RUNTIME_ABS
    ELSE ROI_RUNTIME_ABS' = None /\ UNCHANGED ROI_RUNTIME_REL

\* camRAT.py:417-418, 426-427: the other slot is cleared and the handler answers.
SetRoiClear(t) ==
    /\ srPc[t] = "clear"
    /\ ClearOther(t)
    /\ srPc' = [srPc EXCEPT ![t] = "done"]
    /\ srResp' = [srResp EXCEPT ![t] = SetRoiOk]
    /\ lastDone' = {[mode |-> ReqMode(srReq[t]), roi |-> srLoc[t]]}
    /\ UNCHANGED <<ROI_RUNTIME_MODE, ROI_CLAMP, lock, win, call,
                   srReq, srLoc, resp, cPc, cIter>>

\* The response is sent; the thread is free to serve another request.
SetRoiEnd(t) ==
    /\ srPc[t] = "done"
    /\ srPc' = [srPc EXCEPT ![t] = "idle"]
    /\ srReq' = [srReq EXCEPT ![t] = NoReq]
    /\ srLoc' = [srLoc EXCEPT ![t] = None]
    /\ srResp' = [srResp EXCEPT ![t] = NoResp]
    /\ UNCHANGED <<ROI_RUNTIME_MODE, ROI_RUNTIME_ABS, ROI_RUNTIME_REL, ROI_CLAMP, lock,
                   win, call, lastDone, resp, cPc, cIter>>

---------------------------------------------------------------------------
(* The lookup endpoints and the desktop *)

\* The window is opened, closed, minimized, restored or moved.
WindowChange ==
    /\ \E d \in Desktops : d # win /\ win' = d
    /\ UNCHANGED <<ROI_RUNTIME_MODE, ROI_RUNTIME_ABS, ROI_RUNTIME_REL, ROI_CLAMP, lock,
                   call, srPc, srReq, srLoc, srResp, lastDone, resp, cPc, cIter>>

respUnchanged == <<ROI_RUNTIME_MODE, ROI_RUNTIME_ABS, ROI_RUNTIME_REL, ROI_CLAMP, lock,
                   win, call, srPc, srReq, srLoc, srResp, lastDone, cPc, cIter>>

GetSnapshot ==
    /\ \E capOk \in BOOLEAN, encOk \in BOOLEAN : resp' = snapshot(capOk, encOk)
    /\ UNCHANGED respUnchanged

GetFullWindow ==
    /\ \E capOk \in BOOLEAN, encOk \in BOOLEAN : resp' = full_window_jpg(capOk, encOk)
    /\ UNCHANGED respUnchanged

GetSnapshotGrid ==
    /\ \E capOk \in BOOLEAN, capOk2 \in BOOLEAN, encOk \in BOOLEAN :
         resp' = snapshot_grid(capOk, capOk2, encOk)
    /\ UNCHANGED respUnchanged

GetHealth ==
    /\ resp' = health
    /\ UNCHANGED respUnchanged

---------------------------------------------------------------------------
(* /stream.mjpg: mjpeg_generator, one per connected client *)

NumClients == 2
Clients == 1..NumClients

\* What the generator has done in its current iteration of the while loop;
\* prev: the kind of part the iteration before it emitted ("none" when it
\* emitted no part, or on the first iteration).
NoIter == [err |-> "none", img |-> None, encoded |-> FALSE, emitted |-> 0, part |-> None,
           prev |-> "none"]

streamUnchanged == <<ROI_RUNTIME_MODE, ROI_RUNTIME_ABS, ROI_RUNTIME_REL, ROI_CLAMP,
                     win, call, srPc, srReq, srLoc, srResp, lastDone, resp>>

\* camRAT.py:163-169, 121-123: a client requests /stream.mjpg.
StreamConnect(c) ==
    /\ cPc[c] = "idle"
    /\ cPc' = [cPc EXCEPT ![c] = "capture"]
    /\ cIter' = [cIter EXCEPT ![c] = NoIter]
    /\ UNCHANGED <<lock, streamUnchanged>>

\* The record of a fresh iteration, after one that went as `it` records.
NextIter(it) == [NoIter EXCEPT !.prev = IF it.emitted = 0 THEN "none" ELSE it.part.kind]

\* camRAT.py:125-128: grab_frame at the top of an iteration.
StreamCapture(c) ==
    /\ cPc[c] = "capture"
    /\ \E capOk \in BOOLEAN :
         LET g == grab_frame(capOk)
         IN  /\ cIter' = [cIter EXCEPT ![c].err = g.err, ![c].img = g.img]
             /\ cPc' = [cPc EXCEPT ![c] = IF g.raised THEN "crashed" ELSE "encode"]
    /\ UNCHANGED <<lock, streamUnchanged>>

\* camRAT.py:129-134: encode_jpeg; on failure log and go to the backoff sleep.
StreamEncode(c) ==
    /\ cPc[c] = "encode"
    /\ \E encOk \in BOOLEAN :
         LET e == encode_jpeg(cIter[c].img, encOk)
         IN  IF e.raised
             THEN /\ cPc' = [cPc EXCEPT ![c] = "backoff"]
                  /\ UNCHANGED cIter
             ELSE /\ cPc' = [cPc EXCEPT ![c] = "acquire"]
                  /\ cIter' = [cIter EXCEPT ![c].encoded = TRUE]
    /\ UNCHANGED <<lock, streamUnchanged>>

\* camRAT.py:133-134: time.sleep(0.2) is over; continue restarts the loop.
StreamBackoff(c) ==
    /\ cPc[c] = "backoff"
    /\ cPc' = [cPc EXCEPT ![c] = "capture"]
    /\ cIter' = [cIter EXCEPT ![c] = NextIter(cIter[c])]
    /\ UNCHANGED <<lock, streamUnchanged>>

\* Lock.acquire that does not wait for the holder to release.
LockAcquireNoWait(c) == lock' = lock \cup {c}

\* camRAT.py:136: with lock: blocks until the lock is free, then takes it.
LockAcquire(c) == lock = {} /\ lock' = {c}

\* camRAT.py:136-144: the lock is acquired and one multipart part is yielded; the
\* generator stays suspended at the yield, inside the with block, while the
\* server writes the part to the client.
StreamEmit(c) ==
    /\ cPc[c] = "acquire"
    /\ LockAcquire(c)
    /\ cPc' = [cPc EXCEPT ![c] = "yielded"]
    /\ cIter' = [cIter EXCEPT ![c].emitted = @ + 1, ![c].part = cIter[c].img]
    /\ UNCHANGED streamUnchanged

\* camRAT.py:144-148: the server asks for the next part: the with block is left,
\* the lock released, and the loop sleeps the rest of the frame interval, or
\* none of it when the iteration took longer (late).
StreamResume(c) ==
    /\ cPc[c] = "yielded"
    /\ lock' = lock \ {c}
    /\ \E late \in BOOLEAN :
         cPc' = [cPc EXCEPT ![c] = IF late THEN "capture" ELSE "sleep"]
    /\ cIter' = [cIter EXCEPT ![c] = NextIter(cIter[c])]
    /\ UNCHANGED streamUnchanged

\* The write to the client fails: the server closes the generator, GeneratorExit
\* is raised at the yield and the with block releases the lock.
StreamDisconnect(c) ==
    /\ cPc[c] = "yielded"
    /\ lock' = lock \ {c}
    /\ cPc' = [cPc EXCEPT ![c] = "idle"]
    /\ cIter' = [cIter EXCEPT ![c] = NoIter]
    /\ UNCHANGED streamUnchanged

\* camRAT.py:148: the pacing sleep is over.
StreamWake(c) ==
    /\ cPc[c] = "sleep"
    /\ cPc' = [cPc EXCEPT ![c] = "capture"]
    /\ UNCHANGED <<cIter, lock, streamUnchanged>>

NextStream ==
    \/ \E c \in Clients : StreamConnect(c)
    \/ \E c \in Clients : StreamCapture(c)
    \/ \E c \in Clients : StreamEncode(c)
    \/ \E c \in Clients : StreamBackoff(c)
    \/ \E c \in Clients : StreamEmit(c)
    \/ \E c \in Clients : StreamResume(c)
    \/ \E c \in Clients : StreamDisconnect(c)
    \/ \E c \in Clients : StreamWake(c)
    \/ WindowChange

---------------------------------------------------------------------------
(* Spec, SpecHttp, SpecStream: the server *)

NoCall == [fn |-> "none"]

Init ==
    /\ ROI_RUNTIME_MODE = NoMode
    /\ ROI_RUNTIME_ABS = None
    /\ ROI_RUNTIME_REL = None
    /\ ROI_CLAMP = 0
    /\ lock = {}
    /\ win \in Desktops
    /\ call = NoCall
    /\ srPc = [t \in Threads |-> "idle"]
    /\ srReq = [t \in Threads |-> NoReq]
    /\ srLoc = [t \in Threads |-> None]
    /\ srResp = [t \in Threads |-> NoResp]
    /\ lastDone = {}
    /\ resp = [endpoint |-> "none", status |-> 0, exc |-> "none", body |-> None,
               lookup |-> "none"]
    /\ cPc = [c \in Clients |-> "idle"]
    /\ cIter = [c \in Clients |-> NoIter]

\* Concurrent /set_roi handlers while the window comes and goes.
Next ==
    \/ \E t \in Threads : SetRoiBegin(t)
    \/ \E t \in Threads : SetRoiMode(t)
    \/ \E t \in Threads : SetRoiSlot(t)
    \/ \E t \in Threads : SetRoiClear(t)
    \/ \E t \in Threads : SetRoiEnd(t)
    \/ WindowChange

Spec == Init /\ [][Next]_vars

\* The lookup endpoints, with /set_roi requests served one after the other.
HttpThreads == {NumThreads}

NextHttp ==
    \/ \E t \in HttpThreads : SetRoiBegin(t)
    \/ \E t \in HttpThreads : SetRoiMode(t)
    \/ \E t \in HttpThreads : SetRoiSlot(t)
    \/ \E t \in HttpThreads : SetRoiClear(t)
    \/ \E t \in HttpThreads : SetRoiEnd(t)
    \/ WindowChange
    \/ GetSnapshot
    \/ GetFullWindow
    \/ GetSnapshotGrid
    \/ GetHealth

SpecHttp == Init /\ [][NextHttp]_vars

SpecStream == Init /\ [][NextStream]_vars


---------------------------------------------------------------------------
(* SpecRoi: the resolver on drawn inputs *)

MaxDim == 3
MaxClamp == 2

\* Window boxes, degenerate ones (zero or negative extent) included.
Lefts == {-3, 0, 2}
Tops == {-1, 2}
Widths == -1..MaxDim
Heights == {-1, 0, MaxDim}
BBoxes == [left : Lefts, top : Tops, width : Widths, height : Heights]

\* Absolute ROIs: pixels, in and out of the window.
AbsRois == (-1..MaxDim) \X {-1, 0, 2} \X (-1..(MaxDim + 1)) \X {-1, 0, 1, 5}

\* Relative ROIs: fractions below 0, inside [0, 1] and above 1.
FracsX == {-500000, 0, 300000, 748713, 1000000, 1500000}
FracsY == {0, 500000, 1200000}
RelRois == FracsX \X FracsY \X FracsX \X FracsY

\* The states of the three runtime globals a resolution can find: an override
\* of either mode, no override, and the pairs a mode and an empty slot make.
RuntimeStates ==
    { <<"absolute", a, None>> : a \in AbsRois }
    \cup { <<"relative", None, r>> : r \in RelRois }
    \cup { <<NoMode, None, None>>, <<"absolute", None, None>>, <<"relative", None, None>>,
           <<"absolute", None, <<0, 0, 500000, 500000>> >>,
           <<"relative", <<1, 1, 2, 2>>, None>>,
           <<"relative", <<1, 1, 2, 2>>, <<0, 0, 500000, 500000>> >> }

NoOut == [left |-> 0, top |-> 0, width |-> 0, height |-> 0]

RoiCall(fn, bbox, roi) == [fn |-> fn, bbox |-> bbox, roi |-> roi, done |-> FALSE, out |-> NoOut]

InitRoi ==
    /\ lock = {}
    /\ win = <<>>
    /\ srPc = [t \in Threads |-> "idle"]
    /\ srReq = [t \in Threads |-> NoReq]
    /\ srLoc = [t \in Threads |-> None]
    /\ srResp = [t \in Threads |-> NoResp]
    /\ lastDone = {}
    /\ resp = [endpoint |-> "none", status |-> 0, exc |-> "none", body |-> None,
               lookup |-> "none"]
    /\ cPc = [c \in Clients |-> "idle"]
    /\ cIter = [c \in Clients |-> NoIter]
    /\ \/ /\ \E bbox \in BBoxes, a \in AbsRois : call = RoiCall("_roi_from_absolute", bbox, a)
          /\ ROI_RUNTIME_MODE = NoMode /\ ROI_RUNTIME_ABS = None /\ ROI_RUNTIME_REL = None
          /\ ROI_CLAMP = 0
       \/ /\ \E bbox \in BBoxes, r \in RelRois : call = RoiCall("_roi_from_relative", bbox, r)
          /\ ROI_RUNTIME_MODE = NoMode /\ ROI_RUNTIME_ABS = None /\ ROI_RUNTIME_REL = None
          /\ ROI_CLAMP = 0
       \/ /\ \E bbox \in BBoxes : call = RoiCall("_apply_roi_to_bbox", bbox, None)
          /\ \E rt \in RuntimeStates :
               /\ ROI_RUNTIME_MODE = rt[1]
               /\ ROI_RUNTIME_ABS = rt[2]
               /\ ROI_RUNTIME_REL = rt[3]
          /\ ROI_CLAMP \in 0..MaxClamp

callUnchanged == <<ROI_RUNTIME_MODE, ROI_RUNTIME_ABS, ROI_RUNTIME_REL, ROI_CLAMP, lock,
                   win, srPc, srReq, srLoc, srResp, lastDone, resp, cPc, cIter>>

CallRoiFromAbsolute ==
    /\ call.fn = "_roi_from_absolute" /\ ~call.done
    /\ call' = [call EXCEPT !.done = TRUE, !.out = _roi_from_absolute(call.bbox, call.roi)]
    /\ UNCHANGED callUnchanged

CallRoiFromRelative ==
    /\ call.fn = "_roi_from_relative" /\ ~call.done
    /\ call' = [call EXCEPT !.done = TRUE, !.out = _roi_from_relative(call.bbox, call.roi)]
    /\ UNCHANGED callUnchanged

CallApplyRoi ==
    /\ call.fn = "_apply_roi_to_bbox" /\ ~call.done
    /\ call' = [call EXCEPT !.done = TRUE, !.out = _apply_roi_to_bbox(call.bbox)]
    /\ UNCHANGED callUnchanged

NextRoi ==
    \/ CallRoiFromAbsolute
    \/ CallRoiFromRelative
    \/ CallApplyRoi

SpecRoi == InitRoi /\ [][NextRoi]_vars

---------------------------------------------------------------------------
(* Properties of the resolver, under SpecRoi *)

ApplyDone == call.fn = "_apply_roi_to_bbox" /\ call.done
AbsDone == call.fn = "_roi_from_absolute" /\ call.done
RelDone == call.fn = "_roi_from_relative" /\ call.done

\* C1: whatever the window box (zero and negative extents included), the
\* runtime override or compiled default of either mode and the border clamp,
\* the rectangle _apply_roi_to_bbox returns is at least 1 pixel wide and high.
C1_RectAtLeastOnePixel ==
    ApplyDone => call.out.width >= 1 /\ call.out.height >= 1

\* C1 witness: a degenerate window, a positive clamp and an absolute override
\* with a negative width, resolved to a 1 x 1 rectangle.
C1_Witness ==
    /\ ApplyDone
    /\ call.bbox.width <= 0
    /\ ROI_CLAMP > 0
    /\ ROI_RUNTIME_MODE = "absolute"
    /\ ROI_RUNTIME_ABS # None
    /\ ROI_RUNTIME_ABS[3] < 0
    /\ call.out.width = 1
    /\ call.out.height = 1

\* C7: for x >= 0 and y >= 0, _roi_from_absolute returns left = L + x,
\* top = T + y, width = max(1, min(w, W - x)), height = max(1, min(h, H - y)).
C7_AbsoluteRect ==
    (AbsDone /\ call.roi[1] >= 0 /\ call.roi[2] >= 0) =>
        /\ call.out.left = call.bbox.left + call.roi[1]
        /\ call.out.top = call.bbox.top + call.roi[2]
        /\ call.out.width = Max(1, Min(call.roi[3], call.bbox.width - call.roi[1]))
        /\ call.out.height = Max(1, Min(call.roi[4], call.bbox.height - call.roi[2]))

\* C7 witness: an ROI that starts inside the window and runs past its right
\* edge, cut to the W - x pixels that remain.
C7_Witness ==
    /\ AbsDone
    /\ call.roi[1] > 0 /\ call.roi[2] >= 0
    /\ call.roi[3] > call.bbox.width - call.roi[1]
    /\ call.bbox.width - call.roi[1] > 1
    /\ call.out.width = call.bbox.width - call.roi[1]
    /\ call.out.left = call.bbox.left + call.roi[1]

\* A fraction clamped into [0, 1].
Clamp01(f) == Max(0, Min(Den, f))

\* C8: _roi_from_relative uses every fraction clamped into [0, 1] (the result is
\* that of the clamped fractions, and for a window of extent >= 0 the rectangle
\* starts inside the window box), and the rectangle is the same with l and r
\* swapped and with t and b swapped.
C8_RelativeClampedAndOrderFree ==
    RelDone =>
        LET l == call.roi[1]
            t == call.roi[2]
            r == call.roi[3]
            b == call.roi[4]
            box == call.bbox
        IN  /\ call.out = _roi_from_relative(box, <<r, t, l, b>>)
            /\ call.out = _roi_from_relative(box, <<l, b, r, t>>)
            /\ call.out = _roi_from_relative(box, <<Clamp01(l), Clamp01(t), Clamp01(r), Clamp01(b)>>)
            /\ box.width >= 0 =>
                 /\ call.out.left >= box.left /\ call.out.left <= box.left + box.width
                 /\ call.out.width <= Max(1, box.width)
            /\ box.height >= 0 =>
                 /\ call.out.top >= box.top /\ call.out.top <= box.top + box.height
                 /\ call.out.height <= Max(1, box.height)

\* C8 witness: l above 1 and r below 0, given right-to-left, resolved to the
\* whole width of the window.
C8_Witness ==
    /\ RelDone
    /\ call.roi[1] > Den
    /\ call.roi[3] < 0
    /\ call.bbox.width > 1
    /\ call.out.left = call.bbox.left
    /\ call.out.width = call.bbox.width

---------------------------------------------------------------------------
(* Properties of /set_roi, under Spec *)

BothSlotsSet == ROI_RUNTIME_ABS # None /\ ROI_RUNTIME_REL # None

\* No /set_roi handler is between its first and its last assignment.
Quiescent == \A t \in Threads : srPc[t] \in {"idle", "done"}

\* C2 as stated: in every reachable state, the states between the assignments
\* of a running handler included, ROI_RUNTIME_ABS and ROI_RUNTIME_REL are not
\* both non-empty.
C2_NeverBothSet == ~BothSlotsSet

\* C2 amended: both slots are non-empty only while some handler has assigned
\* its own slot and not yet cleared the other; with no handler at that point,
\* in particular with none running, at most one slot is non-empty.
C2_BothSetOnlyBeforeClear ==
    BothSlotsSet => \E t \in Threads : srPc[t] = "clear"

\* C2 witness: two requests of different modes have run concurrently and both
\* completed, and one slot is left non-empty.
C2_Witness ==
    /\ \E t, u \in Threads :
         /\ srPc[t] = "done" /\ srResp[t].ok /\ ReqMode(srReq[t]) = "absolute"
         /\ srPc[u] = "done" /\ srResp[u].ok /\ ReqMode(srReq[u]) = "relative"
    /\ lastDone # {}
    /\ ROI_RUNTIME_REL # None
    /\ ROI_RUNTIME_ABS = None

\* C4: a /set_roi request with an absent mode, or one that is neither
\* "absolute" nor "relative" in any letter case, is answered 400 with ok = false
\* and leaves the three runtime globals as they were.
C4_BadModeChangesNothing ==
    [][ \A t \in Threads :
          (srPc[t] = "idle" /\ srPc'[t] = "done" /\ ~ValidMode(srReq'[t])) =>
              /\ srResp'[t] = SetRoiBadMode
              /\ UNCHANGED rtVars ]_vars

\* C4 witness: a request without a valid mode was answered 400 while an
\* absolute override was in place.
C4_Witness ==
    \E t \in Threads :
        /\ srPc[t] = "done"
        /\ ~ValidMode(srReq[t])
        /\ srResp[t] = SetRoiBadMode
        /\ ROI_RUNTIME_MODE = "absolute"
        /\ ROI_RUNTIME_ABS # None

\* What a request of mode m with the parsed values v leaves in the three
\* globals when it runs alone.
Leaves(m, v) ==
    IF m = "absolute" THEN <<"absolute", v, None>> ELSE <<"relative", None, v>>

Alone(t) == Leaves(ReqMode(srReq[t]), srLoc[t])

\* C5: once a /set_roi request with mode m and values v has completed and no
\* other has started since (here: and none is still running), a resolution uses
\* mode m with the values v, and /health, when the window is found, reports
\* mode m, v in the slot of m and the other slot empty.
C5_OverrideInForce ==
    \A d \in lastDone :
        Quiescent =>
            /\ RoiSelection(ROI_RUNTIME_MODE, ROI_RUNTIME_ABS, ROI_RUNTIME_REL) = d
            /\ health.body.ok =>
                 <<health.body.mode, health.body.runtime_abs, health.body.runtime_rel>>
                   = Leaves(d.mode, d.roi)

\* C9: when the requests the threads ran concurrently have all completed, the
\* three globals hold what one of them leaves when it runs alone.
C9_LastWriteWins ==
    (\A t \in Threads : srPc[t] = "done" /\ srResp[t].ok) =>
        <<ROI_RUNTIME_MODE, ROI_RUNTIME_ABS, ROI_RUNTIME_REL>> \in { Alone(t) : t \in Threads }

---------------------------------------------------------------------------
(* Properties of the lookup endpoints, under SpecHttp *)

\* C3: no endpoint lets the ValueError of a failed window lookup leave its view
\* as an unhandled failure (500).
C3_LookupFailureHandled ==
    resp.lookup = "failed" => ~(resp.status = 500 /\ resp.exc = "ValueError")

---------------------------------------------------------------------------
(* Properties of the stream, under SpecStream *)

\* C6 as stated: an iteration whose grab failed emits exactly one part, the
\* placeholder frame, and the loop goes on.
C6_FailedGrabEmitsPlaceholder ==
    \A c \in Clients :
        /\ cPc[c] # "crashed"
        /\ (cPc[c] \in {"yielded", "backoff"} /\ cIter[c].err # "none") =>
              /\ cIter[c].emitted = 1
              /\ cIter[c].part = ErrorFrame(cIter[c].err)

\* C6 amended: a failed grab never ends the loop; the iteration emits exactly
\* one part, the placeholder frame carrying the error text, unless the JPEG
\* encoding of that frame fails, and then it emits no part and goes to the
\* backoff sleep; an iteration whose grab succeeded emits, when it emits, the
\* frame it captured.
C6_FailedGrabKeepsStreaming ==
    \A c \in Clients :
        /\ cPc[c] # "crashed"
        /\ cPc[c] = "yielded" =>
              /\ cIter[c].emitted = 1
              /\ cIter[c].err # "none" => cIter[c].part = ErrorFrame(cIter[c].err)
              /\ cIter[c].err = "none" => cIter[c].part.kind = "roi"
        /\ cPc[c] = "backoff" => cIter[c].emitted = 0 /\ ~cIter[c].encoded

\* C6 witness: a client whose previous part was the placeholder is handed a
\* real frame by the same generator.
C6_Witness ==
    \E c \in Clients :
        /\ cPc[c] = "yielded"
        /\ cIter[c].prev = "placeholder"
        /\ cIter[c].err = "none"
        /\ cIter[c].part.kind = "roi"

\* C10: at most one client is in the emit step, it is the holder of the lock,
\* and a client that captures, encodes or sleeps does not hold the lock.
C10_EmitSerialized ==
    /\ Cardinality({c \in Clients : cPc[c] = "yielded"}) <= 1
    /\ lock = {c \in Clients : cPc[c] = "yielded"}
    /\ \A c \in Clients :
         cPc[c] \in {"capture", "encode", "backoff", "sleep"} => c \notin lock

\* C10 witness: one client is in the emit step and holds the lock while a
\* second one captures or encodes.
C10_Witness ==
    \E c, d \in Clients :
        /\ c # d
        /\ cPc[c] = "yielded"
        /\ cPc[d] \in {"capture", "encode"}
        /\ lock = {c}

=============================================================================
